---- MODULE Spec2Model ----
(***************************************************************************)
(* Verification model of the synthphone_vocals streaming core:            *)
(*   - RingBuffer<N>            (src/src/ring_buffer.rs)                  *)
(*   - the RTIC audio application (src/src/examples/daisy_seed_autotune.rs)*)
(*   - RealtimeAutotuneState    (src/src/embedded_realtime.rs)            *)
(* Samples are modelled as integers (0 stands for 0.0f32).  The AtomicU32  *)
(* cursors are modelled CursorBits wide (TLC integers are 32-bit, so 2^32  *)
(* itself is not representable): all cursor arithmetic wraps modulo        *)
(* 2^CursorBits, which the capacity N divides exactly as it divides 2^32.  *)
(***************************************************************************)
EXTENDS Integers, Sequences, FiniteSets, TLC

(* ------------------------------ bounds -------------------------------- *)
\* width in bits of the modelled cursors (u32 in the source)
CursorBits == 5
\* log2 of the ring capacity N of the sequential / SPSC ring-buffer models
LogN == 2
\* caps on the number of operations of each kind in the sequential model
MaxPush == 5
MaxPop == 5
MaxAdvance == 1
\* cap on the add_at_offset calls of the consumer thread
MaxAdd == 1
\* log2 of the frame size of the audio application model (1024 in the source)
LogFft == 3
\* cap on the number of audio interrupts served
MaxCalls == 5
\* frame size of the RealtimeAutotuneState model (1024 in the source)
RtFftSize == 4
\* cap on the number of process_sample_realtime calls
MaxRtCalls == 8

\* bins of the half spectrum in the pipeline model
NumBins == 4

\* frames per stream in the pipeline model
MaxFrames == 3

(* --------------------------- u32 arithmetic --------------------------- *)
\* AtomicU32 cursors: all cursor arithmetic is modulo 2^32 (here 2^CursorBits)
U32 == 2^CursorBits

wrapping_add(a, b) == (a + b) % U32

wrapping_sub(a, b) == (a - b + U32) % U32

Min(a, b) == IF a <= b THEN a ELSE b

RECURSIVE BitAnd(_, _)
\* bitwise AND of two naturals (the `&` of `idx as usize & (N - 1)`)
BitAnd(a, b) ==
    IF a = 0 \/ b = 0 THEN 0
    ELSE (a % 2) * (b % 2) + 2 * BitAnd(a \div 2, b \div 2)

\* ring capacity of the ring-buffer models (a power of two, as the type requires)
N == 2^LogN

\* sample values pushed by the producer (0 is the cleared-slot value)
Vals == {1, 2}

(* ---------------------------- RingBuffer<N> --------------------------- *)
\* a ring is a record [cap, buf, write, read]; cap is the const generic N

Slot_modulo_capacity_minus_one(rb, idx) == idx % (rb.cap - 1)

\* storage index of a cursor value: `idx as usize & (N - 1)`
Slot(rb, idx) == BitAnd(idx, rb.cap - 1)

with_offset(n, offset) ==
    [cap |-> n, buf |-> [i \in 0..(n - 1) |-> 0], write |-> offset, read |-> 0]

new(n) ==
    [cap |-> n, buf |-> [i \in 0..(n - 1) |-> 0], write |-> 0, read |-> 0]

push_saturating(rb, v) ==
    IF wrapping_sub(rb.write, rb.read) >= rb.cap THEN rb
    ELSE [rb EXCEPT !.buf[Slot(rb, rb.write)] = v,
                    !.write = wrapping_add(rb.write, 1)]

\* the memory accesses of push, w being the value loaded from `write`
push_store(rb, w, v) == [rb EXCEPT !.buf[Slot(rb, w)] = v]

push_publish(rb, w) == [rb EXCEPT !.write = wrapping_add(w, 1)]

\* push: store at write & (N-1), then write := write + 1 (release)
push(rb, v) == push_publish(push_store(rb, rb.write, v), rb.write)

pop_from_newest(rb) ==
    [v  |-> rb.buf[Slot(rb, wrapping_sub(rb.write, 1))],
     rb |-> [rb EXCEPT !.buf[Slot(rb, wrapping_sub(rb.write, 1))] = 0,
                       !.read = wrapping_add(rb.read, 1)]]

\* the memory accesses of pop, r being the value loaded from `read`
pop_read(rb, r) == rb.buf[Slot(rb, r)]

pop_clear(rb, r) == [rb EXCEPT !.buf[Slot(rb, r)] = 0]

pop_publish(rb, r) == [rb EXCEPT !.read = wrapping_add(r, 1)]

\* pop: read the cell at read & (N-1), clear it, read := read + 1; returns
\* the value read (v) and the ring afterwards (rb)
pop(rb) ==
    [v  |-> pop_read(rb, rb.read),
     rb |-> pop_publish(pop_clear(rb, rb.read), rb.read)]

write_index(rb) == rb.write

advance_write(rb, n) == [rb EXCEPT !.write = wrapping_add(rb.write, n)]

\* the memory accesses of add_at_offset, idx = read + offset: `*cell += val`
\* reads the cell and writes the sum back
add_read(rb, idx) == rb.buf[Slot(rb, idx)]

add_write(rb, idx, sum) == [rb EXCEPT !.buf[Slot(rb, idx)] = sum]

add_at_offset(rb, offset, val) ==
    LET idx == wrapping_add(rb.read, offset)
    IN  add_write(rb, idx, add_read(rb, idx) + val)

available_saturating(rb) == IF rb.write >= rb.read THEN rb.write - rb.read ELSE 0

available_samples(rb) == wrapping_sub(rb.write, rb.read)

block_from_unshifted(rb, write_idx, len) ==
    [i \in 1..len |-> rb.buf[Slot(rb, wrapping_add(write_idx, i - 1))]]

\* block_from: dst[i] = buf[(write_idx - LEN + i) & (N-1)], i = 0..LEN-1
\* (dst is returned as a sequence, dst[i] at position i + 1)
block_from(rb, write_idx, len) ==
    [i \in 1..len |->
        rb.buf[Slot(rb, wrapping_add(wrapping_sub(write_idx, len), i - 1))]]

latest_block(rb, len) ==
    LET w == rb.write IN
    [i \in 1..len |->
        rb.buf[Slot(rb, wrapping_add(wrapping_sub(w, len), i - 1))]]

(* ------------------------------- state -------------------------------- *)
\* sequential use of one RingBuffer<N>
VARIABLES
    rb,        \* the ring buffer under test
    offset0,   \* the offset it was constructed with (0 for new())
    pushes,    \* number of push calls so far
    pops,      \* number of pop calls so far
    advanced,  \* total amount passed to advance_write so far
    nadvance,  \* number of advance_write calls so far
    pushed,    \* the values pushed, in order
    lastOp,    \* the last operation called
    ret,       \* value returned by the last pop (0 otherwise)
    dest,      \* destination filled by the last block read (<<>> otherwise)
    bounded,   \* so far never more than N values were unread at once
    nonEmpty,  \* so far pop was never called on an empty buffer
    popAt      \* number of pushes done when pop was first called (-1: never)

rbVars == <<rb, offset0, pushes, pops, advanced, nadvance, pushed,
            lastOp, ret, dest, bounded, nonEmpty, popAt>>

\* one producer thread and one consumer thread on rb
VARIABLES
    ppc,      \* producer position: "idle", "store", "publish"
    pw,       \* producer: value loaded from `write`
    pv,       \* producer: value being pushed
    kpc,      \* consumer position: "idle", "pop_read", "pop_clear",
              \*   "pop_publish", "add_read", "add_write"
    kr,       \* consumer: cursor value of the cell it works on
    kval,     \* consumer: value read from the cell (old_val / *cell)
    kadd,     \* consumer: val of the add_at_offset in progress
    nadd,     \* number of add_at_offset calls started
    readPos,  \* position of the cell the consumer read last (-1: none)
    readW,    \* value of the write cursor when it read that cell
    pInside,  \* the producer stored into a slot of the unread range
    kOutside  \* the consumer stored into a cell outside the unread range

spscVars == <<ppc, pw, pv, kpc, kr, kval, kadd, nadd, readPos, readW,
              pInside, kOutside>>

\* the RTIC audio application
VARIABLES
    in_ring,            \* Shared.in_ring
    out_ring,           \* Shared.out_ring
    in_pointer_cached,  \* Shared.in_pointer_cached
    hop_counter,        \* Local.hop_counter of audio_handler
    queued,             \* process_autotune instances spawned and not yet started
    tpc,                \* position of the running process_autotune instance
    write_idx,          \* process_autotune: write_idx
    unwrapped_buffer,   \* process_autotune: unwrapped_buffer
    synthesis_output,   \* process_autotune: synthesis_output
    calls,              \* number of audio interrupts served
    lastIn,             \* input samples of the last audio interrupt
    lastOut,            \* output samples of the last audio interrupt
    lastSkip,           \* per sample: was it output while the last hop
                        \*   request had failed to spawn the task
    skipped,            \* the last hop request failed to spawn the task
    ticks,              \* samples handled by audio_handler so far
    requests,           \* the hop requests so far: tick and spawn result
    history,            \* every input sample pushed so far, in push order
    trigger,            \* tick of the hop request whose spawn started the
                        \*   running process_autotune instance
    overlap_at,         \* out_ring position (pops done) at which the last
                        \*   frame was overlap-added (-1: none yet)
    overlap_prev        \* the same for the frame before it

appVars == <<in_ring, out_ring, in_pointer_cached, hop_counter, queued, tpc,
             write_idx, unwrapped_buffer, synthesis_output, calls, lastIn,
             lastOut, lastSkip, skipped, ticks, requests, history, trigger,
             overlap_at, overlap_prev>>

\* the streaming controller of embedded_realtime.rs
VARIABLES
    rt,        \* the RealtimeAutotuneState
    rtOut,     \* sample returned by the last process_sample_realtime call
    rtRan,     \* the last call ran the frame pipeline (process_fft_frame)
    rtCalls,   \* calls since construction or the last reset()
    rtFrames,  \* frames processed since construction or the last reset()
    rtTotal    \* calls since construction

rtVars == <<rt, rtOut, rtRan, rtCalls, rtFrames, rtTotal>>

\* the frame entry points: process_autotune (core.rs) on an AutotuneState
\* and process_vocal_effects (vocal_effects.rs)
VARIABLES
    overflow_checks,  \* the build panics on integer overflow (debug) or wraps
    fstate,           \* the AutotuneState
    fprev,            \* the AutotuneState before the last call
    fout,             \* the output buffer after the last call
    fres,             \* what the last call returned
    fcall             \* the last call and its arguments

frameVars == <<overflow_checks, fstate, fprev, fout, fres, fcall>>

\* configuration handling (config.rs, fft_config.rs)
VARIABLES
    cfg,      \* the VocalEffectsConfig in use, NoConfig before the first one
    cfgPrev,  \* cfg before the last call
    cfgRes,   \* what the last call returned
    cfgCall   \* the last call and its arguments

cfgVars == <<cfg, cfgPrev, cfgRes, cfgCall>>

\* one stream of frames through one variant of the analysis / remap /
\* synthesis pipeline
VARIABLES
    variant,       \* the pipeline the stream runs through
    stored_ratio,  \* previous_pitch_shift_ratio as the stream's state holds it
    prior_ratio,   \* the ratio computed by the latest frame that computed
                   \*   one (0: none yet)
    pcall,         \* the last frame: its inputs and what was computed
    nframes        \* frames processed so far

pipeVars == <<variant, stored_ratio, prior_ratio, pcall, nframes>>

(* ------------------ sequential use of one RingBuffer<N> --------------- *)
\* construction offsets: new(), a small with_offset, and one next to the
\* cursor wrap-around
Offsets == {0, 2, U32 - 1}

RbInit ==
    /\ offset0 \in Offsets
    /\ rb = IF offset0 = 0 THEN new(N) ELSE with_offset(N, offset0)
    /\ pushes = 0 /\ pops = 0 /\ advanced = 0 /\ nadvance = 0
    /\ pushed = <<>>
    /\ lastOp = "new"
    /\ ret = 0
    /\ dest = <<>>
    /\ bounded = (offset0 <= N)
    /\ nonEmpty = TRUE
    /\ popAt = -1

DoPush(v) ==
    /\ pushes < MaxPush
    /\ rb' = push(rb, v)
    /\ pushes' = pushes + 1
    /\ pushed' = Append(pushed, v)
    /\ lastOp' = "push"
    /\ ret' = 0 /\ dest' = <<>>
    /\ bounded' = (bounded /\ available_samples(rb') <= N)
    /\ UNCHANGED <<offset0, pops, advanced, nadvance, nonEmpty, popAt>>
    /\ UNCHANGED <<spscVars, appVars, rtVars, frameVars, cfgVars, pipeVars>>

DoPop ==
    /\ pops < MaxPop
    /\ rb' = pop(rb).rb
    /\ ret' = pop(rb).v
    /\ pops' = pops + 1
    /\ lastOp' = "pop"
    /\ dest' = <<>>
    /\ nonEmpty' = (nonEmpty /\ available_samples(rb) # 0)
    /\ popAt' = IF popAt = -1 THEN pushes ELSE popAt
    /\ UNCHANGED <<offset0, pushes, advanced, nadvance, pushed, bounded>>
    /\ UNCHANGED <<spscVars, appVars, rtVars, frameVars, cfgVars, pipeVars>>

DoAdvanceWrite(n) ==
    /\ nadvance < MaxAdvance
    /\ rb' = advance_write(rb, n)
    /\ advanced' = advanced + n
    /\ nadvance' = nadvance + 1
    /\ lastOp' = "advance_write"
    /\ ret' = 0 /\ dest' = <<>>
    /\ bounded' = (bounded /\ available_samples(rb') <= N)
    /\ UNCHANGED <<offset0, pushes, pops, pushed, nonEmpty, popAt>>
    /\ UNCHANGED <<spscVars, appVars, rtVars, frameVars, cfgVars, pipeVars>>

DoLatestBlock(len) ==
    /\ lastOp \notin {"latest_block", "block_from"}
    /\ dest' = latest_block(rb, len)
    /\ lastOp' = "latest_block"
    /\ ret' = 0
    /\ UNCHANGED <<rb, offset0, pushes, pops, advanced, nadvance, pushed,
                   bounded, nonEmpty, popAt>>
    /\ UNCHANGED <<spscVars, appVars, rtVars, frameVars, cfgVars, pipeVars>>

DoBlockFrom(len) ==
    /\ lastOp \notin {"latest_block", "block_from"}
    /\ dest' = block_from(rb, write_index(rb), len)
    /\ lastOp' = "block_from"
    /\ ret' = 0
    /\ UNCHANGED <<rb, offset0, pushes, pops, advanced, nadvance, pushed,
                   bounded, nonEmpty, popAt>>
    /\ UNCHANGED <<spscVars, appVars, rtVars, frameVars, cfgVars, pipeVars>>

DoAddAtOffset(offset, val) ==
    /\ nadd < MaxAdd
    /\ rb' = add_at_offset(rb, offset, val)
    /\ nadd' = nadd + 1
    /\ lastOp' = "add_at_offset"
    /\ ret' = 0 /\ dest' = <<>>
    /\ UNCHANGED <<offset0, pushes, pops, advanced, nadvance, pushed,
                   bounded, nonEmpty, popAt>>
    /\ UNCHANGED <<ppc, pw, pv, kpc, kr, kval, kadd, readPos, readW,
                   pInside, kOutside>>
    /\ UNCHANGED <<appVars, rtVars, frameVars, cfgVars, pipeVars>>

\* push / pop / block reads of one buffer
RbNext ==
    \/ \E v \in Vals : DoPush(v)
    \/ DoPop
    \/ \E len \in 1..N : DoLatestBlock(len)
    \/ \E len \in 1..N : DoBlockFrom(len)

\* cursor operations of one buffer: push / pop / advance_write
CursorNext ==
    \/ \E v \in {1} : DoPush(v)
    \/ DoPop
    \/ \E n \in {1, N + 1} : DoAdvanceWrite(n)

\* push / pop / add_at_offset of one buffer
RbAddNext ==
    \/ \E v \in Vals : DoPush(v)
    \/ DoPop
    \/ \E offset \in {0, 1} : \E val \in {1} : DoAddAtOffset(offset, val)

(* ------------------------- ring-buffer properties --------------------- *)
\* the last len pushed values, oldest first
LastPushed(len) == SubSeq(pushed, pushes - len + 1, pushes)

\* C1: after any sequence of push, pop and advance_write on a buffer made by
\* new() or with_offset(k), available_samples() equals
\* (k + pushes + total advanced - pops) modulo the cursor width.
C1_AvailableCountsWritesMinusPops ==
    available_samples(rb) = (offset0 + pushes + advanced - pops) % U32

\* C1 witness: all three operations were used, the write cursor has wrapped
\* past the cursor width and the read cursor is ahead of it numerically
C1_Witness ==
    /\ offset0 = U32 - 1 /\ pushes >= 1 /\ advanced >= 1 /\ pops >= 2
    /\ rb.write < rb.read

\* C2: while never more than N values are unread and pop is never called on
\* an empty buffer, the k-th pop returns the k-th pushed value (after the
\* offset0 zero slots a with_offset buffer starts with).
C2_PopReturnsPushedInOrder ==
    (lastOp = "pop" /\ bounded /\ nonEmpty) =>
        ret = (IF pops <= offset0 THEN 0 ELSE pushed[pops - offset0])

\* C2 witness: on a new() buffer the (N+1)-th pop, whose storage index has
\* wrapped around, returned a pushed value
C2_Witness ==
    /\ offset0 = 0 /\ lastOp = "pop" /\ bounded /\ nonEmpty
    /\ pops = N + 1 /\ ret = 2 /\ Slot(rb, rb.read) = 1

\* C3: push is always possible, and after any number of pushes without pops
\* the storage holds exactly the most recent min(pushes, N) pushed values
\* (each at the slot of its position, every other slot still 0).
C3_PushOverwritesOldest ==
    /\ pushes < MaxPush => ENABLED (\E v \in Vals : DoPush(v))
    /\ pops = 0 =>
          \A s \in 0..(N - 1) :
             LET held == {j \in 1..Min(pushes, N) :
                             Slot(rb, wrapping_sub(rb.write, j)) = s}
             IN  /\ Cardinality(held) <= 1
                 /\ \A j \in held : rb.buf[s] = pushed[pushes - j + 1]
                 /\ held = {} => rb.buf[s] = 0

\* C3 witness: more than N values were pushed into a full buffer, no pop
C3_Witness ==
    pops = 0 /\ pushes = N + 1 /\ lastOp = "push" /\ offset0 = 0

\* C4 as claimed: after M > N pushes with no intervening pop, the next N
\* pops return the N most recently pushed values, oldest first.
C4_Original ==
    (lastOp = "pop" /\ offset0 = 0 /\ popAt > N /\ pushes = popAt /\ pops <= N) =>
        ret = pushed[popAt - N + pops]

\* C4 (amended): after M > N pushes with no intervening pop, the j-th of
\* the next N pops returns the value of push number
\* M - N + 1 + ((j - 1 - (k + M)) mod N), k the construction offset: the N
\* most recent values in storage-slot order, which is push order exactly
\* when k + M is a multiple of N.
C4_PopsAfterOverrun ==
    (lastOp = "pop" /\ popAt > N /\ pushes = popAt /\ pops <= N) =>
        ret = pushed[popAt - N + 1 + ((pops - 1 - (offset0 + popAt)) % N)]

\* C4 witness: N pops done after N + 1 pushes on a new() buffer
C4_Witness ==
    /\ lastOp = "pop" /\ offset0 = 0 /\ popAt = N + 1 /\ pushes = popAt
    /\ pops = N

SpscIdle ==
    /\ ppc = "idle" /\ pw = 0 /\ pv = 0
    /\ kpc = "idle" /\ kr = 0 /\ kval = 0 /\ kadd = 0 /\ nadd = 0
    /\ readPos = -1 /\ readW = -1
    /\ pInside = FALSE /\ kOutside = FALSE

\* positions p of the unread range [read, write)
InUnread(r, p) == wrapping_sub(p, r.read) < available_samples(r)

\* storage slots holding the unread range [read, write)
UnreadSlots(r) ==
    {Slot(r, wrapping_add(r.read, i)) : i \in 0..(Min(available_samples(r), r.cap) - 1)}

\* position p is at or beyond the cursor w (in wrapping cursor order)
AtOrBeyond(p, w) ==
    LET d == wrapping_sub(w, p) IN d = 0 \/ d >= U32 \div 2

\* ghost variables of the sequential model that the threads do not use
SpscFrame == UNCHANGED <<offset0, advanced, nadvance, pushed, lastOp, dest,
                         bounded, nonEmpty, popAt, appVars, rtVars, frameVars, cfgVars, pipeVars>>

\* push, line 123: let w = self.write.load(Relaxed)
PushLoad(v) ==
    /\ ppc = "idle" /\ pushes < MaxPush
    /\ pw' = rb.write /\ pv' = v
    /\ ppc' = "store"
    /\ pushes' = pushes + 1
    /\ UNCHANGED <<pops, rb, kpc, kr, kval, kadd, nadd, readPos, readW, pInside, kOutside>>
    /\ UNCHANGED ret /\ SpscFrame

\* push, line 124: buf[w & (N-1)] = v
PushStore ==
    /\ ppc = "store"
    /\ rb' = push_store(rb, pw, pv)
    /\ pInside' = (pInside \/ Slot(rb, pw) \in UnreadSlots(rb))
    /\ ppc' = "publish"
    /\ UNCHANGED <<pops, pushes, pw, pv, kpc, kr, kval, kadd, nadd, readPos, readW, kOutside>>
    /\ UNCHANGED ret /\ SpscFrame

\* push, line 125: self.write.store(w + 1, Release)
PushPublish ==
    /\ ppc = "publish"
    /\ rb' = push_publish(rb, pw)
    /\ ppc' = "idle"
    /\ UNCHANGED <<pops, pushes, pw, pv, kpc, kr, kval, kadd, nadd, readPos, readW,
                   pInside, kOutside>>
    /\ UNCHANGED ret /\ SpscFrame

\* pop, line 149: let r = self.read.load(Relaxed)
PopLoad ==
    /\ kpc = "idle" /\ pops < MaxPop
    /\ kr' = rb.read
    /\ kpc' = "pop_read"
    /\ pops' = pops + 1
    /\ UNCHANGED <<pushes, rb, ppc, pw, pv, kval, kadd, nadd, readPos, readW, pInside, kOutside>>
    /\ UNCHANGED ret /\ SpscFrame

\* pop, line 152: let old_val = *cell
PopRead ==
    /\ kpc = "pop_read"
    /\ kval' = pop_read(rb, kr)
    /\ readPos' = kr /\ readW' = rb.write
    /\ kpc' = "pop_clear"
    /\ UNCHANGED <<pushes, rb, pops, ppc, pw, pv, kr, kadd, nadd, pInside, kOutside>>
    /\ UNCHANGED ret /\ SpscFrame

\* pop, line 153: *cell = 0.0
PopClear ==
    /\ kpc = "pop_clear"
    /\ rb' = pop_clear(rb, kr)
    /\ kOutside' = (kOutside \/ ~InUnread(rb, kr))
    /\ kpc' = "pop_publish"
    /\ UNCHANGED <<pushes, pops, ppc, pw, pv, kr, kval, kadd, nadd, readPos, readW, pInside>>
    /\ UNCHANGED ret /\ SpscFrame

\* pop, lines 156-157: self.read.store(r + 1, Release); return old_val
PopPublish ==
    /\ kpc = "pop_publish"
    /\ rb' = pop_publish(rb, kr)
    /\ ret' = kval
    /\ kpc' = "idle"
    /\ UNCHANGED <<pushes, pops, ppc, pw, pv, kr, kval, kadd, nadd, readPos, readW,
                   pInside, kOutside>>
    /\ SpscFrame

\* add_at_offset, line 275: idx = self.read.load(Relaxed) + offset
AddLoad(offset, val) ==
    /\ kpc = "idle" /\ nadd < MaxAdd
    /\ kr' = wrapping_add(rb.read, offset)
    /\ kadd' = val
    /\ nadd' = nadd + 1
    /\ kpc' = "add_read"
    /\ UNCHANGED <<pushes, rb, pops, ret, ppc, pw, pv, kval, readPos, readW, pInside, kOutside>>
    /\ SpscFrame

\* add_at_offset, line 278: the read half of `*cell += val`
AddRead ==
    /\ kpc = "add_read"
    /\ kval' = add_read(rb, kr)
    /\ readPos' = kr /\ readW' = rb.write
    /\ kpc' = "add_write"
    /\ UNCHANGED <<pushes, rb, pops, ret, ppc, pw, pv, kr, kadd, nadd, pInside, kOutside>>
    /\ SpscFrame

\* add_at_offset, line 278: the write half of `*cell += val`
AddWrite ==
    /\ kpc = "add_write"
    /\ rb' = add_write(rb, kr, kval + kadd)
    /\ kOutside' = (kOutside \/ ~InUnread(rb, kr))
    /\ kpc' = "idle"
    /\ UNCHANGED <<pushes, pops, ret, ppc, pw, pv, kr, kval, kadd, nadd, readPos, readW, pInside>>
    /\ SpscFrame

SpscNext ==
    \/ \E v \in Vals : PushLoad(v)
    \/ PushStore
    \/ PushPublish
    \/ PopLoad
    \/ PopRead
    \/ PopClear
    \/ PopPublish
    \/ \E offset \in {0, 1} : \E val \in {1} : AddLoad(offset, val)
    \/ AddRead
    \/ AddWrite

\* both threads are between the load and the store of the same storage slot
Racing ==
    /\ ppc = "store"
    /\ kpc \in {"pop_read", "pop_clear", "add_read", "add_write"}
    /\ Slot(rb, pw) = Slot(rb, kr)

\* C7 as claimed: the consumer reads the cell of a position only after the
\* write cursor has been stored past it; it never reads a cell at a position
\* at or beyond the write cursor.
C7_Original == readPos # -1 => ~AtOrBeyond(readPos, readW)

\* C8 as claimed: every storage slot is mutated by one side at a time; push
\* stores only into slots outside the unread range [read, write), pop and
\* add_at_offset only into cells inside it.
C8_Original == ~pInside /\ ~kOutside /\ ~Racing

(* ---------------- the RTIC audio application (Daisy Seed) ------------- *)
\* src/src/examples/daisy_seed_autotune.rs: audio_handler (hardware task,
\* priority 8) is the producer, process_autotune (software task, priority 6)
\* the consumer.  Sample amplitudes are in tenths (1 stands for 0.1).
FFT_SIZE == 2^LogFft

BUFFER_SIZE == FFT_SIZE * 4

HOP_SIZE == FFT_SIZE \div 4

BLOCK_SIZE == 2

AudioPriority == 8

TaskPriority == 6

\* target_peak of normalize_sample(out_sample, 0.6), in tenths
TargetPeak == 6

Abs(x) == IF x < 0 THEN -x ELSE x

ZeroFrame == [i \in 1..FFT_SIZE |-> 0]

\* normalize_sample: samples within the peak pass unchanged; above it the
\* result is sample * (1 - exp(-3 * peak / |sample|)), kept symbolic as
\* [soft |-> TRUE, x |-> sample]
normalize_sample(sample, target_peak) ==
    IF Abs(sample) > target_peak
    THEN [soft |-> TRUE, x |-> sample]
    ELSE [soft |-> FALSE, x |-> sample]

\* autotune_audio: the analysis / resynthesis of one frame.  The DSP is
\* opaque at this level: the synthesized frame is represented by the frame
\* it was computed from (output sample i by analysed sample i).
autotune_audio(frame) == frame

RECURSIVE write_synthesis_loop(_, _, _)
write_synthesis_loop(output_samples, output_ring, i) ==
    IF i = FFT_SIZE THEN output_ring
    ELSE write_synthesis_loop(output_samples,
             add_at_offset(output_ring, i, output_samples[i + 1]), i + 1)

\* write_synthesis_output: for i in 0..FFT_SIZE add_at_offset(i, samples[i])
write_synthesis_output(output_samples, output_ring) ==
    write_synthesis_loop(output_samples, output_ring, 0)

\* process_autotune::spawn(): fails when an instance is already waiting in
\* the task's (capacity 1) message queue
SpawnOk(q) == q = 0

hop_elapsed_late(counter) == counter > HOP_SIZE

\* if *ctx.local.hop_counter >= HOP_SIZE as u32
hop_elapsed(counter) == counter >= HOP_SIZE

\* one iteration of audio_handler's loop over the block, on the record
\* st = [inr, outr, cache, hop, q, ins, outs, skips, skip, tick, reqs]
HandleSample(st, sample) ==
    LET inr  == push(st.inr, sample)
        po   == pop(st.outr)
        norm == normalize_sample(po.v, TargetPeak)
        hop  == hop_elapsed(st.hop)
        ok   == SpawnOk(st.q)
    IN  [inr   |-> inr,
         outr  |-> po.rb,
         cache |-> IF hop THEN write_index(inr) ELSE st.cache,
         hop   |-> (IF hop THEN 0 ELSE st.hop) + 1,
         q     |-> IF hop /\ ok THEN st.q + 1 ELSE st.q,
         ins   |-> Append(st.ins, sample),
         outs  |-> Append(st.outs, norm),
         skips |-> Append(st.skips, st.skip),
         skip  |-> IF hop THEN ~ok ELSE st.skip,
         tick  |-> st.tick + 1,
         reqs  |-> IF hop
                   THEN Append(st.reqs, [tick |-> st.tick + 1, ok |-> ok])
                   ELSE st.reqs]

RECURSIVE HandleBlock(_, _, _)
HandleBlock(st, block, i) ==
    IF i > Len(block) THEN st
    ELSE HandleBlock(HandleSample(st, block[i]), block, i + 1)

\* a lock() taken by process_autotune raises its priority to the ceiling of
\* the resource, the priority of audio_handler, which also uses it
InCritical == tpc \in {"read_ptr", "copy", "overlap"}

CurrentPriority ==
    IF InCritical THEN AudioPriority
    ELSE IF tpc = "idle" THEN 0 ELSE TaskPriority

AppInit ==
    /\ in_ring = new(BUFFER_SIZE)
    /\ out_ring = with_offset(BUFFER_SIZE, FFT_SIZE + 2 * HOP_SIZE)
    /\ in_pointer_cached = 0
    /\ hop_counter = 0
    /\ queued = 0
    /\ tpc = "idle"
    /\ write_idx = 0
    /\ unwrapped_buffer = ZeroFrame
    /\ synthesis_output = ZeroFrame
    /\ calls = 0
    /\ lastIn = <<>> /\ lastOut = <<>> /\ lastSkip = <<>>
    /\ skipped = FALSE
    /\ ticks = 0
    /\ requests = <<>>
    /\ history = <<>>
    /\ trigger = 0
    /\ overlap_at = -1 /\ overlap_prev = -1

\* tick of the latest hop request whose spawn succeeded
LastSpawned(reqs) ==
    LET ok == {i \in 1..Len(reqs) : reqs[i].ok}
    IN  reqs[CHOOSE i \in ok : \A j \in ok : j <= i].tick

taskVars == <<tpc, write_idx, unwrapped_buffer, synthesis_output>>

\* audio_handler: one DMA interrupt, BLOCK_SIZE samples; it preempts
\* process_autotune unless the task is inside a lock
AudioHandler(block) ==
    /\ calls < MaxCalls
    /\ AudioPriority > CurrentPriority
    /\ LET st == HandleBlock([inr |-> in_ring, outr |-> out_ring,
                              cache |-> in_pointer_cached, hop |-> hop_counter,
                              q |-> queued, ins |-> <<>>, outs |-> <<>>,
                              skips |-> <<>>, skip |-> skipped,
                              tick |-> ticks, reqs |-> requests], block, 1)
       IN  /\ in_ring' = st.inr
           /\ out_ring' = st.outr
           /\ in_pointer_cached' = st.cache
           /\ hop_counter' = st.hop
           /\ queued' = st.q
           /\ lastIn' = st.ins
           /\ lastOut' = st.outs
           /\ lastSkip' = st.skips
           /\ skipped' = st.skip
           /\ ticks' = st.tick
           /\ requests' = st.reqs
           /\ history' = history \o st.ins
    /\ calls' = calls + 1
    /\ UNCHANGED taskVars
    /\ UNCHANGED <<trigger, overlap_at, overlap_prev>>
    /\ UNCHANGED <<rbVars, spscVars, rtVars, frameVars, cfgVars, pipeVars>>

\* the dispatcher starts a spawned process_autotune (its queue slot is free
\* again from then on)
Dispatch ==
    /\ tpc = "idle" /\ queued > 0
    /\ queued' = queued - 1
    /\ tpc' = "lock_ptr"
    /\ trigger' = LastSpawned(requests)
    /\ UNCHANGED <<overlap_at, overlap_prev>>
    /\ UNCHANGED <<in_ring, out_ring, in_pointer_cached, hop_counter, write_idx,
                   unwrapped_buffer, synthesis_output, calls, lastIn, lastOut,
                   lastSkip, skipped, ticks, requests, history>>
    /\ UNCHANGED <<rbVars, spscVars, rtVars, frameVars, cfgVars, pipeVars>>

\* process_autotune enters one of its three lock() closures
TaskLock ==
    /\ tpc \in {"lock_ptr", "lock_in", "lock_out"}
    /\ tpc' = CASE tpc = "lock_ptr" -> "read_ptr"
                [] tpc = "lock_in"  -> "copy"
                [] tpc = "lock_out" -> "overlap"
    /\ UNCHANGED <<in_ring, out_ring, in_pointer_cached, hop_counter, queued,
                   write_idx, unwrapped_buffer, synthesis_output, calls, lastIn,
                   lastOut, lastSkip, skipped, ticks, requests, history>>
    /\ UNCHANGED <<trigger, overlap_at, overlap_prev>>
    /\ UNCHANGED <<rbVars, spscVars, rtVars, frameVars, cfgVars, pipeVars>>

\* let write_idx = in_pointer_cached.lock(|p| *p)
TaskReadPointer ==
    /\ tpc = "read_ptr"
    /\ write_idx' = in_pointer_cached
    /\ tpc' = "lock_in"
    /\ UNCHANGED <<in_ring, out_ring, in_pointer_cached, hop_counter, queued,
                   unwrapped_buffer, synthesis_output, calls, lastIn, lastOut,
                   lastSkip, skipped, ticks, requests, history>>
    /\ UNCHANGED <<trigger, overlap_at, overlap_prev>>
    /\ UNCHANGED <<rbVars, spscVars, rtVars, frameVars, cfgVars, pipeVars>>

\* in_ring.lock(|rb| rb.block_from::<FFT_SIZE>(write_idx, &mut unwrapped_buffer))
TaskCopy ==
    /\ tpc = "copy"
    /\ unwrapped_buffer' = block_from(in_ring, write_idx, FFT_SIZE)
    /\ tpc' = "dsp"
    /\ UNCHANGED <<in_ring, out_ring, in_pointer_cached, hop_counter, queued,
                   write_idx, synthesis_output, calls, lastIn, lastOut,
                   lastSkip, skipped, ticks, requests, history>>
    /\ UNCHANGED <<trigger, overlap_at, overlap_prev>>
    /\ UNCHANGED <<rbVars, spscVars, rtVars, frameVars, cfgVars, pipeVars>>

\* let synthesis_output = autotune_audio(&mut unwrapped_buffer, ...)
TaskDsp ==
    /\ tpc = "dsp"
    /\ synthesis_output' = autotune_audio(unwrapped_buffer)
    /\ tpc' = "lock_out"
    /\ UNCHANGED <<in_ring, out_ring, in_pointer_cached, hop_counter, queued,
                   write_idx, unwrapped_buffer, calls, lastIn, lastOut,
                   lastSkip, skipped, ticks, requests, history>>
    /\ UNCHANGED <<trigger, overlap_at, overlap_prev>>
    /\ UNCHANGED <<rbVars, spscVars, rtVars, frameVars, cfgVars, pipeVars>>

\* out_ring.lock(|r| write_synthesis_output(&synthesis_output, r)); return
TaskOverlap ==
    /\ tpc = "overlap"
    /\ out_ring' = write_synthesis_output(synthesis_output, out_ring)
    /\ tpc' = "idle"
    /\ write_idx' = 0
    /\ unwrapped_buffer' = ZeroFrame
    /\ synthesis_output' = ZeroFrame
    /\ UNCHANGED <<in_ring, in_pointer_cached, hop_counter, queued, calls,
                   lastIn, lastOut, lastSkip, skipped, ticks, requests, history>>
    /\ overlap_at' = out_ring.read
    /\ overlap_prev' = overlap_at
    /\ UNCHANGED trigger
    /\ UNCHANGED <<rbVars, spscVars, rtVars, frameVars, cfgVars, pipeVars>>

\* the blocks of BLOCK_SIZE input samples the codec may deliver
Blocks == {<<1, 2>>, <<2, 1>>}

AppNext ==
    \/ \E block \in Blocks : AudioHandler(block)
    \/ Dispatch
    \/ TaskLock
    \/ TaskReadPointer
    \/ TaskCopy
    \/ TaskDsp
    \/ TaskOverlap

\* out is the input in passed through directly or attenuated by a factor
\* k/10 in (0, 1]
PassThrough(out, in) ==
    /\ ~out.soft
    /\ \E k \in 1..10 : 10 * out.x = k * in

\* C6 as claimed: the producer's per-tick path is enabled whatever state the
\* consumer is in; no lock held by the consumer can delay it.
C6_Original ==
    calls < MaxCalls => ENABLED (\E block \in Blocks : AudioHandler(block))

\* C10 as claimed: while a hop is not processed because process_autotune
\* could not be spawned, the samples output are the input samples passed
\* through (optionally attenuated), not silence or stale buffer content.
C10_Original ==
    \A i \in 1..Len(lastOut) :
        lastSkip[i] => PassThrough(lastOut[i], lastIn[i])

\* the fft_size samples pushed up to and including tick t, in push order
\* (0.0, the ring's initial content, for positions before the first push)
FrameBefore(t) ==
    [i \in 1..FFT_SIZE |->
        IF t - FFT_SIZE + i >= 1 THEN history[t - FFT_SIZE + i] ELSE 0]

\* C22 as claimed: under every interleaving of producer ticks with the
\* consumer task, the frame a consumer run analyses is exactly the fft_size
\* samples pushed immediately before the hop request that triggered that
\* run, in push order.
C22_Original ==
    tpc \in {"dsp", "lock_out", "overlap"} =>
        unwrapped_buffer = FrameBefore(trigger)

\* C23 as claimed: successive synthesized frames are overlap-added into the
\* output ring exactly hop_size sample positions apart, regardless of when
\* within its hop period the consumer task executes relative to the
\* producer's pops.
C23_Original ==
    overlap_prev # -1 => wrapping_sub(overlap_at, overlap_prev) = HOP_SIZE

\* C11: a hop whose request could not be scheduled is skipped without error
\* and without blocking: audio_handler has pushed one input and popped one
\* output sample per tick, returned a full output block, and issued the next
\* request exactly HOP_SIZE ticks after the skipped one.
C11_SkippedHopKeepsCadence ==
    /\ in_ring.write = ticks % U32
    /\ out_ring.read = ticks % U32
    /\ ticks = calls * BLOCK_SIZE
    /\ calls > 0 => Len(lastOut) = BLOCK_SIZE
    /\ \A i \in 1..Len(requests) :
          /\ ~requests[i].ok /\ i < Len(requests) =>
                requests[i + 1].tick = requests[i].tick + HOP_SIZE
          /\ ~requests[i].ok /\ i = Len(requests) =>
                /\ ticks < requests[i].tick + HOP_SIZE
                /\ hop_counter = ticks - requests[i].tick + 1

\* C11 witness: a request failed to spawn the task and the next request has
\* been issued since
C11_Witness ==
    \E i \in 1..Len(requests) : ~requests[i].ok /\ i < Len(requests)

(* ------------- RealtimeAutotuneState (embedded_realtime.rs) ----------- *)
\* Buffer samples are kept in units of 1/RtScale so that the gains 0.8 and
\* 0.1 of the source are exact on integers.
RtScale == 10 * 5^MaxRtCalls

RtZero == [i \in 0..(RtFftSize - 1) |-> 0]

\* RealtimeAutotuneState::new(config); of the config only hop_size matters
\* to the buffer management. analysis_state stands for last_input_phases,
\* last_output_phases, synthesis_magnitudes, synthesis_frequencies and
\* previous_pitch_shift_ratio together.
rt_new(hop_size) ==
    [input_buffer |-> RtZero,
     output_buffer |-> RtZero,
     write_pos |-> 0,
     read_pos |-> 0,
     samples_since_process |-> 0,
     analysis_state |-> "initial",
     output_ready |-> FALSE,
     hop_size |-> hop_size]

rt_reset_buffers_only(state) ==
    [state EXCEPT !.input_buffer = RtZero, !.output_buffer = RtZero]

\* RealtimeAutotuneState::reset(): every field but config back to its
\* constructor value
rt_reset(state) ==
    [state EXCEPT !.input_buffer = RtZero,
                  !.output_buffer = RtZero,
                  !.write_pos = 0,
                  !.read_pos = 0,
                  !.samples_since_process = 0,
                  !.analysis_state = "initial",
                  !.output_ready = FALSE]

\* process_fft_frame up to the inverse FFT: the frame is read from the
\* circular input buffer starting at write_pos (lines 154-157); the
\* analysis / resynthesis itself is opaque here, output sample i of the
\* frame is represented by input sample i
rt_frame(state) ==
    [i \in 0..(RtFftSize - 1) |->
        state.input_buffer[(state.write_pos + RtFftSize - RtFftSize + i) % RtFftSize]]

RECURSIVE rt_overlap_add(_, _, _, _)
\* synthesize_output, lines 275-281: output_buffer[(write_pos + i) % FFT_SIZE] += frame[i]
rt_overlap_add(out, frame, write_pos, i) ==
    IF i = RtFftSize THEN out
    ELSE rt_overlap_add(
             [out EXCEPT ![(write_pos + i) % RtFftSize] = @ + frame[i]],
             frame, write_pos, i + 1)

RECURSIVE rt_decay(_, _, _, _)
\* synthesize_output, lines 284-287: output_buffer[(read_pos + i) % FFT_SIZE] *= 0.8
rt_decay(out, read_pos, hop_size, i) ==
    IF i >= hop_size THEN out
    ELSE rt_decay([out EXCEPT ![(read_pos + i) % RtFftSize] = (@ * 4) \div 5],
                  read_pos, hop_size, i + 1)

\* synthesize_output: inverse FFT of the synthesis data (opaque, see
\* rt_frame), overlap-add at write_pos, then the decay of hop_size slots
\* from read_pos
synthesize_output(state, frame) ==
    LET added == rt_overlap_add(state.output_buffer, frame, state.write_pos, 0)
    IN  [state EXCEPT !.output_buffer =
                          rt_decay(added, state.read_pos, state.hop_size, 0)]

\* process_fft_frame: analysis and pitch shift update the phase, magnitude,
\* frequency and ratio fields (analysis_state), then synthesize_output;
\* always Ok
process_fft_frame(state) ==
    synthesize_output([state EXCEPT !.analysis_state = "updated"],
                      rt_frame(state))

hop_due_strict(samples_since_process, hop_size) ==
    samples_since_process > hop_size

\* line 100: if state.samples_since_process >= state.config.hop_size
hop_due(samples_since_process, hop_size) ==
    samples_since_process >= hop_size

next_read_pos_stuck(read_pos) == read_pos

\* line 109: state.read_pos = (state.read_pos + 1) % FFT_SIZE
next_read_pos(read_pos) == (read_pos + 1) % RtFftSize

\* process_sample_realtime: returns the state afterwards (state), the output
\* sample (out) and whether the frame pipeline ran (ran)
process_sample_realtime(input_sample, state) ==
    LET s1 == [state EXCEPT
                  !.input_buffer[state.write_pos] = input_sample * RtScale,
                  !.write_pos = (state.write_pos + 1) % RtFftSize,
                  !.samples_since_process = state.samples_since_process + 1]
        due == hop_due(s1.samples_since_process, s1.hop_size)
        s2 == IF due
              THEN [process_fft_frame(s1) EXCEPT !.samples_since_process = 0,
                                                 !.output_ready = TRUE]
              ELSE s1
    IN  IF s2.output_ready
        THEN [state |-> [s2 EXCEPT !.read_pos = next_read_pos(s2.read_pos)],
              out   |-> s2.output_buffer[s2.read_pos],
              ran   |-> due]
        ELSE [state |-> s2,
              out   |-> input_sample * (RtScale \div 10),
              ran   |-> due]

\* config.hop_size is a public field: any value can be configured
HopSizes == 0..(RtFftSize + 1)

RtInit ==
    /\ \E h \in HopSizes : rt = rt_new(h)
    /\ rtOut = 0
    /\ rtRan = FALSE
    /\ rtCalls = 0 /\ rtFrames = 0 /\ rtTotal = 0

RtProcessSample(input_sample) ==
    /\ rtTotal < MaxRtCalls
    /\ LET r == process_sample_realtime(input_sample, rt)
       IN  /\ rt' = r.state
           /\ rtOut' = r.out
           /\ rtRan' = r.ran
           /\ rtFrames' = rtFrames + (IF r.ran THEN 1 ELSE 0)
    /\ rtCalls' = rtCalls + 1
    /\ rtTotal' = rtTotal + 1
    /\ UNCHANGED <<rbVars, spscVars, appVars, frameVars, cfgVars, pipeVars>>

RtReset ==
    /\ rtCalls > 0
    /\ rt' = rt_reset(rt)
    /\ rtOut' = 0
    /\ rtRan' = FALSE
    /\ rtCalls' = 0 /\ rtFrames' = 0
    /\ UNCHANGED rtTotal
    /\ UNCHANGED <<rbVars, spscVars, appVars, frameVars, cfgVars, pipeVars>>

RtNext ==
    \/ \E input_sample \in Vals : RtProcessSample(input_sample)
    \/ RtReset

\* read_pos as it was when the frame of the last call was synthesized: the
\* call read one output sample afterwards
ReadPosAtFrame == (rt.read_pos + RtFftSize - 1) % RtFftSize

\* the slots the last frame's synthesize_output decayed (lines 284-287)
DecayedSlots ==
    {(ReadPosAtFrame + i) % RtFftSize : i \in 0..(rt.hop_size - 1)}

\* the slots read out between the previous frame and the last one: none
\* before the first frame, else the hop_size slots behind read_pos
ReadSinceLastHop ==
    IF rtFrames <= 1 THEN {}
    ELSE {(ReadPosAtFrame + RtFftSize - j) % RtFftSize : j \in 1..rt.hop_size}

\* C24 as claimed: at each processed hop the only output-buffer slots that
\* are decayed are slots already read out since the previous hop; no slot is
\* attenuated before it has been output.
C24_Original ==
    (rtRan /\ 1 <= rt.hop_size /\ rt.hop_size <= RtFftSize) =>
        DecayedSlots \subseteq ReadSinceLastHop

\* C25: for 1 <= hop_size <= fft_size, after every call of
\* process_sample_realtime from the first processed frame onward the read
\* position trails the write position by exactly hop_size - 1 slots modulo
\* fft_size, and after every call samples_since_process is below hop_size.
C25_ConstantLatency ==
    (1 <= rt.hop_size /\ rt.hop_size <= RtFftSize /\ rtCalls > 0) =>
        /\ rt.samples_since_process < rt.hop_size
        /\ rtFrames >= 1 =>
              /\ rt.output_ready
              /\ (rt.write_pos - rt.read_pos + RtFftSize) % RtFftSize
                    = (rt.hop_size - 1) % RtFftSize

\* C25 witness: hop_size 3, past the second frame, with the write position
\* wrapped around behind the read position
C25_Witness ==
    /\ rt.hop_size = 3 /\ rtFrames >= 2 /\ ~rtRan
    /\ rt.write_pos < rt.read_pos

\* C9: for 1 <= hop_size <= fft_size, process_sample_realtime runs the frame
\* pipeline exactly on calls number hop_size, 2*hop_size, ... counted from
\* construction or reset, and on no other call.
C9_FramesAtHopMultiples ==
    (1 <= rt.hop_size /\ rt.hop_size <= RtFftSize /\ rtCalls > 0) =>
        /\ rtRan <=> (rtCalls % rt.hop_size = 0)
        /\ rtFrames = rtCalls \div rt.hop_size
        /\ rt.samples_since_process = rtCalls % rt.hop_size

\* C9 witness: the second frame of a run that followed a reset, hop_size 3
C9_Witness ==
    /\ rt.hop_size = 3 /\ rtRan /\ rtFrames = 2 /\ rtCalls = 6
    /\ rtTotal > rtCalls

\* the rest of the model while one part of it runs

(* ---------- frame entry points (core.rs, vocal_effects.rs, keys.rs) --- *)
\* Sample data is abstracted to what the control flow depends on.  A frame
\* is "zero" (all samples 0.0), "high" (not zero, detected fundamental
\* outside [min_frequency, max_frequency]) or "voiced" (detected fundamental
\* inside the window).  An array of the state is "zero" or "data", the
\* ratio "one" (1.0) or "other".
Frames == {"zero", "voiced", "high"}

\* KEYS.len()
NumKeys == 24

\* length of a KeyScaleFrequencies table; all entries are positive
TableLen == 70

\* SCALE_NOTES: notes per row of the table
ScaleNotes == 7

\* get_frequency(key, note, octave, is_vocoder): "zero" for 0.0, "table" for
\* an entry of the table (positive), "panic" for an index out of bounds or,
\* in a build with overflow checks, an overflow of the index arithmetic
get_frequency(key, note, octave, is_vocoder, checks) ==
    LET offset == IF is_vocoder THEN 0 ELSE 2
        known == octave \in {1, 2, 4}
        octave_idx == CASE octave = 1 -> 1 + offset
                        [] octave = 2 -> 2 + offset
                        [] octave = 4 -> 3 + offset
                        [] OTHER -> 0
        \* octave_idx * 7 + note as usize - 1 on usize: a negative note is
        \* 2^64 + note, so the sum overflows
        raw == octave_idx * ScaleNotes + note - 1
        overflow == note < 0
        note_index == IF raw < 0 THEN TableLen ELSE raw
    IN  IF ~known THEN "zero"
        ELSE IF overflow /\ checks THEN "panic"
        ELSE IF key < 0 \/ key >= NumKeys THEN "zero"
        ELSE IF note_index >= TableLen THEN "panic"
        ELSE "table"

\* core.rs calculate_target_frequency: the nearest note of the scale when
\* note == 0 (a table entry), else get_frequency; Err(ProcessingFailed) when
\* the result is <= 0.0
calculate_target_frequency(settings, checks) ==
    LET target_frequency ==
            IF settings.note = 0 THEN "table"
            ELSE get_frequency(settings.key, settings.note, settings.octave,
                               FALSE, checks)
    IN  CASE target_frequency = "panic" -> "panic"
          [] target_frequency = "zero" -> "ProcessingFailed"
          [] OTHER -> "Ok"

\* the only size the hot path of core.rs accepts
MicrofftSize == 1024

\* AutotuneState::new(config)
state_new(fft_size) ==
    [fft_size |-> fft_size,
     last_input_phases |-> "zero",
     last_output_phases |-> "zero",
     synthesis_magnitudes |-> "zero",
     synthesis_frequencies |-> "zero",
     previous_pitch_shift_ratio |-> "one"]

\* AutotuneState::new_validated(config)
new_validated(fft_size) ==
    IF fft_size # MicrofftSize
    THEN [res |-> "UnsupportedFftSize", state |-> "none"]
    ELSE [res |-> "Ok", state |-> state_new(fft_size)]

\* AutotuneState::reset()
state_reset(state) ==
    [state EXCEPT !.last_input_phases = "zero",
                  !.last_output_phases = "zero",
                  !.synthesis_magnitudes = "zero",
                  !.synthesis_frequencies = "zero",
                  !.previous_pitch_shift_ratio = "one"]

\* the output buffer as the caller hands it in
Untouched == [kind |-> "untouched", zero |-> FALSE]

length_mismatch_either(input_len, output_len, fft_size) ==
    input_len # fft_size /\ output_len # fft_size

\* core.rs line 85: input_buffer.len() != fft_size || output_buffer.len() != fft_size
length_mismatch(input_len, output_len, fft_size) ==
    input_len # fft_size \/ output_len # fft_size

\* core.rs process_autotune(input_buffer, output_buffer, state, settings)
process_autotune(input_len, output_len, frame, state, settings, checks) ==
    IF length_mismatch(input_len, output_len, state.fft_size)
    THEN [res |-> "BufferSizeMismatch", state |-> state, out |-> Untouched]
    ELSE IF state.fft_size # MicrofftSize
    THEN [res |-> "UnsupportedFftSize", state |-> state, out |-> Untouched]
    ELSE
    LET \* steps 1-3: every bin's phase is stored; atan2f(0, 0) = 0
        analysed == [state EXCEPT
                        !.last_input_phases =
                            IF frame = "zero" THEN "zero" ELSE "data",
                        \* step 4: synthesis arrays filled with 0.0
                        !.synthesis_magnitudes = "zero",
                        !.synthesis_frequencies = "zero"]
        target == calculate_target_frequency(settings, checks)
    IN  IF frame # "voiced"
        THEN \* outside [min_frequency, max_frequency]: copy input to output
             [res |-> "Ok", state |-> analysed,
              out |-> [kind |-> "input", zero |-> frame = "zero"]]
        ELSE IF target # "Ok"
        THEN [res |-> target, state |-> analysed, out |-> Untouched]
        ELSE [res |-> "Ok",
              state |-> [analysed EXCEPT
                            !.synthesis_magnitudes = "data",
                            !.synthesis_frequencies = "data",
                            !.previous_pitch_shift_ratio = "other",
                            !.last_output_phases = "data"],
              out |-> [kind |-> "synthesized", zero |-> FALSE]]

\* effects calculate_pitch_shift: the target is looked up only when the
\* detected frequency is above 0.001, which a zero frame with zero phase
\* history never is; a target of 0.0 is clamped, not an error
calculate_pitch_shift(frame, settings, checks) ==
    IF frame = "zero" \/ settings.note = 0 THEN "Ok"
    ELSE IF get_frequency(settings.key, settings.note, settings.octave,
                          FALSE, checks) = "panic"
    THEN "panic" ELSE "Ok"

playing_note_always(note) == TRUE

\* effects/mod.rs line 370: let playing_note = note != 0
playing_note(note) == note # 0

\* vocal_effects.rs process_vocal_effects from zero phase histories;
\* carrier is "None", or Some buffer that is "zero" or "data"
process_vocal_effects(mode, frame, carrier, settings, checks) ==
    CASE mode = "Autotune" ->
            \* process_pitch_correction_generic
            IF calculate_pitch_shift(frame, settings, checks) = "panic"
            THEN [res |-> "panic", out |-> Untouched]
            ELSE [res |-> "Ok",
                  out |-> [kind |-> "synthesized", zero |-> frame = "zero"]]
      [] mode = "Vocode" ->
            \* carrier_buffer.expect("Carrier buffer required for vocode mode")
            IF carrier = "None"
            THEN [res |-> "panic", out |-> Untouched]
            ELSE \* process_vocode_generic: carrier bins scaled by
                 \* mod_mag / car_mag, 0.0 where car_mag <= 0.0001
                 [res |-> "Ok",
                  out |-> [kind |-> "synthesized",
                           zero |-> frame = "zero" \/ carrier = "zero"]]
      [] mode = "Dry" ->
            \* process_dry_generic: vocals * 0.96 + synth * 0.04 when a
            \* note is playing, else vocals
            [res |-> "Ok",
             out |-> [kind |-> "synthesized",
                      zero |-> /\ frame = "zero"
                               /\ (~playing_note(settings.note)
                                     \/ carrier # "data")]]

\* the MusicalSettings values tried: the default, a manual note, a key and
\* an octave that resolve to 0.0 Hz, a note beyond the table, a negative
\* note, and a formant shift
SettingsTried ==
    {[key |-> 0, note |-> 0, octave |-> 2, formant |-> 0],
     [key |-> 0, note |-> 9, octave |-> 2, formant |-> 0],
     [key |-> 24, note |-> 1, octave |-> 2, formant |-> 0],
     [key |-> 0, note |-> 1, octave |-> 0, formant |-> 0],
     [key |-> 0, note |-> 36, octave |-> 4, formant |-> 0],
     [key |-> 0, note |-> -1, octave |-> 2, formant |-> 0],
     [key |-> 23, note |-> 0, octave |-> 1, formant |-> 1]}

FftSizes == {512, 1024, 2048, 4096}

Lens == {512, 1023, 1024}

Modes == {"Autotune", "Vocode", "Dry"}

Carriers == {"None", "zero", "data"}

NoCall == [entry |-> "none"]

FrameParked ==
    /\ overflow_checks = FALSE
    /\ fstate = state_new(MicrofftSize)
    /\ fprev = fstate
    /\ fout = Untouched
    /\ fres = "none"
    /\ fcall = NoCall

FrameInit ==
    /\ overflow_checks \in BOOLEAN
    /\ \E n \in FftSizes : fstate = state_new(n)
    /\ fprev = fstate
    /\ fout = Untouched
    /\ fres = "none"
    /\ fcall = NoCall

\* a panic unwinds out of the audio callback: nothing runs after it
Alive == fres # "panic"

ProcessAutotune(input_len, output_len, frame, settings) ==
    /\ Alive
    /\ LET r == process_autotune(input_len, output_len, frame, fstate,
                                 settings, overflow_checks)
       IN  /\ fres' = r.res
           /\ fstate' = r.state
           /\ fout' = r.out
    /\ fprev' = fstate
    /\ fcall' = [entry |-> "process_autotune", input_len |-> input_len,
                 output_len |-> output_len, frame |-> frame,
                 settings |-> settings]
    /\ UNCHANGED overflow_checks
    /\ UNCHANGED <<rbVars, spscVars, appVars, rtVars, cfgVars, pipeVars>>

ProcessVocalEffects(mode, frame, carrier, settings) ==
    /\ Alive
    /\ LET r == process_vocal_effects(mode, frame, carrier, settings,
                                      overflow_checks)
       IN  /\ fres' = r.res
           /\ fout' = r.out
    /\ fprev' = fstate
    /\ fcall' = [entry |-> "process_vocal_effects", mode |-> mode,
                 frame |-> frame, carrier |-> carrier, settings |-> settings]
    /\ UNCHANGED <<overflow_checks, fstate>>
    /\ UNCHANGED <<rbVars, spscVars, appVars, rtVars, cfgVars, pipeVars>>

StateNewValidated(fft_size) ==
    /\ Alive
    /\ LET r == new_validated(fft_size)
       IN  /\ fres' = r.res
           /\ fstate' = IF r.res = "Ok" THEN r.state ELSE fstate
    /\ fprev' = fstate
    /\ fout' = Untouched
    /\ fcall' = [entry |-> "new_validated", fft_size |-> fft_size]
    /\ UNCHANGED overflow_checks
    /\ UNCHANGED <<rbVars, spscVars, appVars, rtVars, cfgVars, pipeVars>>

StateReset ==
    /\ Alive
    /\ fstate' = state_reset(fstate)
    /\ fprev' = fstate
    /\ fres' = "Ok"
    /\ fout' = Untouched
    /\ fcall' = [entry |-> "reset"]
    /\ UNCHANGED overflow_checks
    /\ UNCHANGED <<rbVars, spscVars, appVars, rtVars, cfgVars, pipeVars>>

FrameNext ==
    \/ \E input_len \in Lens, output_len \in Lens, frame \in Frames,
          settings \in SettingsTried :
          ProcessAutotune(input_len, output_len, frame, settings)
    \/ \E mode \in Modes, frame \in {"zero", "voiced"}, carrier \in Carriers,
          settings \in SettingsTried :
          ProcessVocalEffects(mode, frame, carrier, settings)
    \/ \E fft_size \in FftSizes : StateNewValidated(fft_size)
    \/ StateReset

\* C12 as claimed: no frame entry point panics, whatever the mode and the
\* MusicalSettings, Vocode without a carrier and out-of-range key, note and
\* octave included.
C12_Original == fres # "panic"

\* the last call was a process_autotune that got as far as resolving the
\* target frequency, and the target was not positive
TargetNotPositive ==
    /\ fcall.entry = "process_autotune"
    /\ ~length_mismatch(fcall.input_len, fcall.output_len, fprev.fft_size)
    /\ fprev.fft_size = MicrofftSize
    /\ fcall.frame = "voiced"
    /\ calculate_target_frequency(fcall.settings, overflow_checks)
           = "ProcessingFailed"

\* C13 as claimed: when the target frequency resolves to <= 0 Hz the frame
\* call returns no error; it skips the correction and still writes the
\* frame's output.
C13_Original ==
    TargetNotPositive => fres = "Ok" /\ fout.kind # "untouched"

\* C14: process_autotune returns BufferSizeMismatch whenever the input or
\* the output length differs from fft_size (and only then), and in that case
\* neither the processing state nor the output buffer has been modified.
C14_MismatchRejectedUntouched ==
    fcall.entry = "process_autotune" =>
        /\ fres = "BufferSizeMismatch" <=>
              (\/ fcall.input_len # fprev.fft_size
               \/ fcall.output_len # fprev.fft_size)
        /\ fres = "BufferSizeMismatch" =>
              fstate = fprev /\ fout = Untouched

\* C14 witness: only the output length is wrong, on a state that already
\* carries history from an earlier frame
C14_Witness ==
    /\ fcall.entry = "process_autotune"
    /\ fres = "BufferSizeMismatch"
    /\ fcall.input_len = fprev.fft_size
    /\ fcall.output_len # fprev.fft_size
    /\ fstate.last_input_phases = "data"
    /\ fstate.previous_pitch_shift_ratio = "other"

(* ------------- configuration (config.rs, fft_config.rs) --------------- *)
\* f32 arguments: hop ratios are counted in units of 1/RatioUnit (all the
\* thresholds of the source are multiples of it, so products with a power
\* of two are exact); NaN is the f32 NaN, for which every comparison is
\* false.
RatioUnit == 32

NaN == -999

f_le(a, b) == a # NaN /\ b # NaN /\ a <= b

f_gt(a, b) == a # NaN /\ b # NaN /\ a > b

\* 0.0625 and 0.5, the bounds of (0.0625..=0.5)
MinHopRatio == RatioUnit \div 16

MaxHopRatio == RatioUnit \div 2

\* usize::is_power_of_two
is_power_of_two(n) == \E e \in 0..16 : n = 2^e

sample_rate_negative(sample_rate) == sample_rate # NaN /\ sample_rate < 0

\* sample_rate <= 0.0
sample_rate_invalid(sample_rate) == f_le(sample_rate, 0)

\* (0.0625..=0.5).contains(&hop_ratio)
hop_ratio_in_range(hop_ratio) ==
    f_le(MinHopRatio, hop_ratio) /\ f_le(hop_ratio, MaxHopRatio)

\* (fft_size as f32 * hop_ratio) as usize
hop_size_of(fft_size, hop_ratio) == (fft_size * hop_ratio) \div RatioUnit

NoConfig == [fft_size |-> 0, hop_size |-> 0, sample_rate |-> 0, hop_ratio |-> 0]

\* VocalEffectsConfig::new(fft_size, sample_rate, processing_mode, hop_ratio)
config_new(fft_size, sample_rate, hop_ratio) ==
    IF ~is_power_of_two(fft_size)
    THEN [res |-> "InvalidConfiguration", made |-> FALSE, cfg |-> NoConfig]
    ELSE IF ~(512 <= fft_size /\ fft_size <= 4096)
    THEN [res |-> "InvalidConfiguration", made |-> FALSE, cfg |-> NoConfig]
    ELSE IF sample_rate_invalid(sample_rate)
    THEN [res |-> "InvalidConfiguration", made |-> FALSE, cfg |-> NoConfig]
    ELSE IF ~hop_ratio_in_range(hop_ratio)
    THEN [res |-> "InvalidConfiguration", made |-> FALSE, cfg |-> NoConfig]
    ELSE [res |-> "Ok", made |-> TRUE,
          cfg |-> [fft_size |-> fft_size,
                   hop_size |-> hop_size_of(fft_size, hop_ratio),
                   sample_rate |-> sample_rate,
                   hop_ratio |-> hop_ratio]]

\* VocalEffectsConfig::set_hop_ratio(&mut self, hop_ratio)
set_hop_ratio(self, hop_ratio) ==
    IF ~hop_ratio_in_range(hop_ratio)
    THEN [res |-> "InvalidConfiguration", cfg |-> self]
    ELSE [res |-> "Ok",
          cfg |-> [self EXCEPT !.hop_ratio = hop_ratio,
                               !.hop_size = hop_size_of(self.fft_size, hop_ratio)]]

\* fft_config::validate_config(fft_size, sample_rate, hop_ratio)
validate_config(fft_size, sample_rate, hop_ratio) ==
    IF ~(fft_size > 0 /\ is_power_of_two(fft_size))
    THEN "FFT size must be a power of 2"
    ELSE IF fft_size < 4 \/ fft_size > 32768
    THEN "FFT size must be between 4 and 32768"
    ELSE IF f_le(sample_rate, 0)
    THEN "Sample rate must be positive"
    ELSE IF f_le(hop_ratio, 0) \/ f_gt(hop_ratio, RatioUnit)
    THEN "Hop ratio must be between 0.0 and 1.0"
    ELSE "Ok"

\* the arguments tried: 1/32, 1/16, 1/4, 1/2, 17/32, 1 and 1.5 among the
\* hop ratios
CfgSizes == {256, 512, 1023, 4096, 8192}

SampleRates == {NaN, -1, 0, 48000}

HopRatios == {NaN, 0, 1, 2, 8, 16, 17, 32, 48}

NoCfgCall == [entry |-> "none"]

CfgParked ==
    /\ cfg = NoConfig /\ cfgPrev = NoConfig
    /\ cfgRes = "none" /\ cfgCall = NoCfgCall

ConfigNew(fft_size, sample_rate, hop_ratio) ==
    /\ LET r == config_new(fft_size, sample_rate, hop_ratio)
       IN  /\ cfgRes' = r.res
           /\ cfg' = IF r.made THEN r.cfg ELSE cfg
           /\ cfgCall' = [entry |-> "new", fft_size |-> fft_size,
                          sample_rate |-> sample_rate,
                          hop_ratio |-> hop_ratio, made |-> r.made]
    /\ cfgPrev' = cfg
    /\ UNCHANGED <<rbVars, spscVars, appVars, rtVars, frameVars, pipeVars>>

SetHopRatio(hop_ratio) ==
    /\ cfg # NoConfig
    /\ LET r == set_hop_ratio(cfg, hop_ratio)
       IN  /\ cfgRes' = r.res
           /\ cfg' = r.cfg
    /\ cfgPrev' = cfg
    /\ cfgCall' = [entry |-> "set_hop_ratio", hop_ratio |-> hop_ratio]
    /\ UNCHANGED <<rbVars, spscVars, appVars, rtVars, frameVars, pipeVars>>

ValidateConfig(fft_size, sample_rate, hop_ratio) ==
    /\ cfgRes' = validate_config(fft_size, sample_rate, hop_ratio)
    /\ cfgCall' = [entry |-> "validate_config", fft_size |-> fft_size,
                   sample_rate |-> sample_rate, hop_ratio |-> hop_ratio]
    /\ cfgPrev' = cfg
    /\ UNCHANGED cfg
    /\ UNCHANGED <<rbVars, spscVars, appVars, rtVars, frameVars, pipeVars>>

ConfigNext ==
    \/ \E fft_size \in CfgSizes, sample_rate \in SampleRates,
          hop_ratio \in HopRatios : ConfigNew(fft_size, sample_rate, hop_ratio)
    \/ \E hop_ratio \in HopRatios : SetHopRatio(hop_ratio)
    \/ \E fft_size \in {1023, 1024}, sample_rate \in {-1, 48000},
          hop_ratio \in HopRatios :
          ValidateConfig(fft_size, sample_rate, hop_ratio)

\* C15 as claimed: UnsupportedFftSize is returned at construction time
\* only, and only for a size outside {512, 1024, 2048, 4096}; a size of the
\* set is never rejected with it, at construction or on the hot path.
C15_Original ==
    fres = "UnsupportedFftSize" =>
        /\ fcall.entry = "new_validated"
        /\ fcall.fft_size \notin {512, 1024, 2048, 4096}

\* C16: VocalEffectsConfig::new returns InvalidConfiguration for every
\* fft_size that is not a power of two, every sample_rate <= 0 and every
\* hop_ratio > 0.5, and produces no configuration value in those cases.
C16_InvalidArgumentsRejected ==
    (/\ cfgCall.entry = "new"
     /\ \/ ~is_power_of_two(cfgCall.fft_size)
        \/ f_le(cfgCall.sample_rate, 0)
        \/ f_gt(cfgCall.hop_ratio, MaxHopRatio)) =>
        /\ cfgRes = "InvalidConfiguration"
        /\ ~cfgCall.made
        /\ cfg = cfgPrev

\* C16 witness: a constructor call in which only the sample rate (0.0) is
\* wrong has been rejected
C16_Witness ==
    /\ cfgCall.entry = "new"
    /\ cfgCall.fft_size = 512 /\ cfgCall.hop_ratio = RatioUnit \div 4
    /\ cfgCall.sample_rate = 0
    /\ cfgRes = "InvalidConfiguration"

\* C17 as claimed: every configuration from the constructor, also after any
\* successful or failed set_hop_ratio, has hop_size = floor(fft_size *
\* hop_ratio), 1 <= hop_size < fft_size, fft_size a power of two and
\* sample_rate > 0; a failed set_hop_ratio leaves it unchanged.
C17_Original ==
    /\ cfg # NoConfig =>
          /\ cfg.hop_size * RatioUnit <= cfg.fft_size * cfg.hop_ratio
          /\ cfg.fft_size * cfg.hop_ratio < (cfg.hop_size + 1) * RatioUnit
          /\ 1 <= cfg.hop_size /\ cfg.hop_size < cfg.fft_size
          /\ is_power_of_two(cfg.fft_size)
          /\ f_gt(cfg.sample_rate, 0)
    /\ (cfgCall.entry = "set_hop_ratio" /\ cfgRes # "Ok") => cfg = cfgPrev

\* C18 as claimed: for a supported fft_size and a positive sample_rate a
\* hop_ratio is accepted exactly when it lies in (0, 0.5], by the
\* constructor, by set_hop_ratio and by validate_config alike.
C18_Original ==
    (\/ cfgCall.entry = "set_hop_ratio"
     \/ /\ cfgCall.entry \in {"new", "validate_config"}
        /\ cfgCall.fft_size \in {512, 1024, 2048, 4096}
        /\ f_gt(cfgCall.sample_rate, 0)) =>
        (cfgRes = "Ok" <=>
            (f_gt(cfgCall.hop_ratio, 0) /\ f_le(cfgCall.hop_ratio, MaxHopRatio)))

\* the last call processed an all-zero frame of the state's size, from a
\* freshly constructed state
ZeroFrameCall ==
    \/ /\ fcall.entry = "process_vocal_effects"
       /\ fcall.frame = "zero"
    \/ /\ fcall.entry = "process_autotune"
       /\ fcall.frame = "zero"
       /\ fcall.input_len = fprev.fft_size
       /\ fcall.output_len = fprev.fft_size
       /\ fprev = state_new(fprev.fft_size)

\* the last call was Dry mode with a note selected and a non-zero synth input
DryBlendCall ==
    /\ fcall.entry = "process_vocal_effects"
    /\ fcall.mode = "Dry"
    /\ fcall.settings.note # 0
    /\ fcall.carrier = "data"

C21_Original ==
    (lastOp = "pop" /\ available_samples(rb) = U32 - 1) => ret = 0

(* ------------- reset() of both processing states ---------------------- *)
\* frames are processed through both states, each of which may be reset at
\* any point
ResetNext ==
    \/ RtProcessSample(1)
    \/ RtReset
    \/ \E frame \in {"zero", "voiced"}, settings \in {s \in SettingsTried : s.note = 0} :
          ProcessAutotune(fstate.fft_size, fstate.fft_size, frame, settings)
    \/ StateReset

\* C19: reset() returns the processing state to what the constructor
\* produces for the same configuration, whatever preceded it: phase,
\* magnitude and frequency arrays zero and the ratio 1.0; for the realtime
\* state also both buffers zero, write and read positions 0, hop counter 0
\* and output_ready false.
C19_ResetRestoresConstructorState ==
    /\ fcall.entry = "reset" =>
          /\ fstate.fft_size = fprev.fft_size
          /\ fstate.last_input_phases = "zero"
          /\ fstate.last_output_phases = "zero"
          /\ fstate.synthesis_magnitudes = "zero"
          /\ fstate.synthesis_frequencies = "zero"
          /\ fstate.previous_pitch_shift_ratio = "one"
          /\ fstate = state_new(fprev.fft_size)
    /\ (rtCalls = 0 /\ rtTotal > 0) =>
          /\ rt.analysis_state = "initial"
          /\ rt.input_buffer = RtZero /\ rt.output_buffer = RtZero
          /\ rt.write_pos = 0 /\ rt.read_pos = 0
          /\ rt.samples_since_process = 0
          /\ rt.output_ready = FALSE
          /\ rt = rt_new(rt.hop_size)

\* C19 witness: both states have just been reset, the AutotuneState after a
\* corrected frame, the realtime state after more than a frame of samples
C19_Witness ==
    /\ fcall.entry = "reset"
    /\ fprev.previous_pitch_shift_ratio = "other"
    /\ fprev.last_output_phases = "data"
    /\ rtCalls = 0 /\ rtTotal > RtFftSize
    /\ rt.hop_size = 2

(* ------------- the analysis / remap / synthesis pipeline -------------- *)
\* One frame through each variant of the pipeline: process_autotune of
\* core.rs ("core"), process_pitch_correction_generic of effects/mod.rs
\* ("generic"), autotune_audio of embedded.rs as the Daisy application calls
\* it ("embedded"), process_fft_frame of embedded_realtime.rs ("realtime").
\* The forward transform is outside the model: a frame is given by what the
\* analysis hands on, the magnitudes of its NumBins bins (small integers),
\* the raw ratio target / detected in thousandths (0: the detected
\* frequency is below the floor, or outside the corrected range), and the
\* output phase of its bins in quarter turns.
FullBins == 2 * NumBins

Bins == 0..(NumBins - 1)

\* 1.0 as a ratio in thousandths
RatioOne == 1000

\* raw_ratio.clamp(0.5, 2.0)
ClampLo == 500

ClampHi == 2000

\* SMOOTHING_FACTOR = 0.99
SmoothingPercent == 99

\* pitch_correction_strength of the presets: 0.8
StrengthPercent == 80

\* alpha = 1 - expf(-transition_speed * 10) at transition_speed 0.2
AlphaPermille == 865

ZeroBins == [i \in Bins |-> 0]

clamp(x, lo, hi) == IF x < lo THEN lo ELSE IF x > hi THEN hi ELSE x

\* clamped_ratio * SMOOTHING_FACTOR + previous_ratio * (1.0 - SMOOTHING_FACTOR)
smooth(clamped_ratio, previous_ratio) ==
    (clamped_ratio * SmoothingPercent
        + previous_ratio * (100 - SmoothingPercent)) \div 100

\* dsp/signal_processing.rs calculate_pitch_shift: the previous ratio when
\* nothing is detected, else the clamped raw ratio, smoothed
dsp_calculate_pitch_shift(raw_ratio, previous_pitch_shift_ratio) ==
    IF raw_ratio > 0
    THEN smooth(clamp(raw_ratio, ClampLo, ClampHi), previous_pitch_shift_ratio)
    ELSE previous_pitch_shift_ratio

\* embedded.rs calculate_pitch_shift_ratio: None (0 here) when nothing is
\* detected, else Some(smoothed clamped ratio)
calculate_pitch_shift_ratio(raw_ratio, previous_ratio) ==
    IF raw_ratio = 0 THEN 0
    ELSE smooth(clamp(raw_ratio, ClampLo, ClampHi), previous_ratio)

\* core.rs lines 150-154: strength * (target / exact)
\*                        + (1 - strength) * state.previous_pitch_shift_ratio
core_pitch_shift_ratio(raw_ratio, previous_pitch_shift_ratio) ==
    (StrengthPercent * raw_ratio
        + (100 - StrengthPercent) * previous_pitch_shift_ratio) \div 100

\* embedded_realtime.rs lines 194-205: 1.0 outside (80, 2000) Hz, else
\* target / fundamental; exponential smoothing into the state
rt_pitch_shift_ratio(raw_ratio, previous_pitch_shift_ratio) ==
    LET current_pitch_shift_ratio ==
            IF raw_ratio > 0 THEN raw_ratio ELSE RatioOne
    IN  (previous_pitch_shift_ratio * (1000 - AlphaPermille)
            + current_pitch_shift_ratio * AlphaPermille) \div 1000

\* floorf(i as f32 * pitch_shift_ratio + 0.5) as usize
new_bin(i, pitch_shift_ratio) == (i * pitch_shift_ratio + 500) \div 1000

RECURSIVE core_shift(_, _, _, _)
\* core.rs lines 167-196: bins that land inside the spectrum accumulate
core_shift(analysis_magnitudes, pitch_shift_ratio, synthesis_magnitudes, i) ==
    IF i = NumBins THEN synthesis_magnitudes
    ELSE LET b == new_bin(i, pitch_shift_ratio)
         IN  core_shift(analysis_magnitudes, pitch_shift_ratio,
                 IF b < NumBins
                 THEN [synthesis_magnitudes EXCEPT ![b] = @ + analysis_magnitudes[i]]
                 ELSE synthesis_magnitudes,
                 i + 1)

RECURSIVE apply_spectral_shift(_, _, _, _)
\* embedded.rs apply_spectral_shift and effects/mod.rs lines 87-117, no
\* formant change: bins of negligible magnitude are skipped, the target bin
\* is limited to the last bin, and synthesis_magnitudes[new_bin] is assigned
apply_spectral_shift(analysis_magnitudes, pitch_shift_ratio, synthesis_magnitudes, i) ==
    IF i = NumBins THEN synthesis_magnitudes
    ELSE LET b == Min(new_bin(i, pitch_shift_ratio), NumBins - 1)
         IN  apply_spectral_shift(analysis_magnitudes, pitch_shift_ratio,
                 IF analysis_magnitudes[i] <= 0 THEN synthesis_magnitudes
                 ELSE [synthesis_magnitudes EXCEPT ![b] = analysis_magnitudes[i]],
                 i + 1)

\* magnitude * cosf(phase), magnitude * sinf(phase) at a phase of q quarter
\* turns
polar(magnitude, q) ==
    CASE q = 0 -> [re |-> magnitude, im |-> 0]
      [] q = 1 -> [re |-> 0, im |-> magnitude]
      [] q = 2 -> [re |-> -magnitude, im |-> 0]
      [] q = 3 -> [re |-> 0, im |-> -magnitude]

conj(c) == [re |-> c.re, im |-> -c.im]

ComplexZero == [re |-> 0, im |-> 0]

\* embedded.rs perform_synthesis, effects/mod.rs lines 119-134 and core.rs
\* lines 204-231 up to the inverse transform: bins 0..N/2-1 from magnitude
\* and phase, bin N-i the conjugate of bin i for 0 < i < N/2, the rest 0
perform_synthesis(synthesis_magnitudes, q) ==
    [k \in 0..(FullBins - 1) |->
        IF k < NumBins THEN polar(synthesis_magnitudes[k], q)
        ELSE IF k > NumBins THEN conj(polar(synthesis_magnitudes[FullBins - k], q))
        ELSE ComplexZero]

\* embedded_realtime.rs synthesize_output lines 231-266: bins of significant
\* magnitude from magnitude and phase, the conjugate mirrored for
\* i in 1..(SPECTRUM_SIZE - 1), then DC and Nyquist made real
rt_full_spectrum(synthesis_magnitudes, q) ==
    LET filled == [k \in 0..(FullBins - 1) |->
                      IF k < NumBins /\ synthesis_magnitudes[k] > 0
                      THEN polar(synthesis_magnitudes[k], q)
                      ELSE ComplexZero]
        mirrored == [k \in 0..(FullBins - 1) |->
                      IF FullBins - k \in 1..(NumBins - 2)
                      THEN conj(filled[FullBins - k])
                      ELSE filled[k]]
    IN  [mirrored EXCEPT ![0].im = 0, ![NumBins].im = 0]

\* what one frame call hands back: the ratio used for the remap (0: none),
\* whether a ratio was computed, the ratio left in the stream's state, the
\* synthesis magnitudes, the spectrum handed to the inverse transform, and
\* how the output was produced ("synth": by the inverse transform, "copy":
\* the input copied)

\* core.rs process_autotune, lines 140-231
core_frame(analysis_magnitudes, raw_ratio, q, state_ratio) ==
    IF raw_ratio = 0
    THEN [ratio |-> 0, computed |-> FALSE, state_ratio |-> state_ratio,
          shifted |-> FALSE, synth |-> ZeroBins,
          spectrum |-> perform_synthesis(ZeroBins, 0), kind |-> "copy"]
    ELSE LET r == core_pitch_shift_ratio(raw_ratio, state_ratio)
             synth == core_shift(analysis_magnitudes, r, ZeroBins, 0)
         IN  [ratio |-> r, computed |-> TRUE, state_ratio |-> r,
              shifted |-> TRUE, synth |-> synth,
              spectrum |-> perform_synthesis(synth, q), kind |-> "synth"]

\* effects/mod.rs process_pitch_correction_generic: the previous ratio is
\* passed by value and only the samples are returned
generic_frame(analysis_magnitudes, raw_ratio, q, previous_pitch_shift_ratio) ==
    LET r == dsp_calculate_pitch_shift(raw_ratio, previous_pitch_shift_ratio)
        synth == apply_spectral_shift(analysis_magnitudes, r, ZeroBins, 0)
    IN  [ratio |-> r, computed |-> raw_ratio > 0,
         state_ratio |-> previous_pitch_shift_ratio,
         shifted |-> TRUE, synth |-> synth,
         spectrum |-> perform_synthesis(synth, q), kind |-> "synth"]

\* embedded.rs autotune_audio called as in daisy_seed_autotune.rs line 158:
\* `mut previous_pitch_shift_ratio: f32` is a by-value parameter, the
\* assignment in line 62 changes the callee's copy only
autotune_audio_frame(analysis_magnitudes, raw_ratio, q, previous_pitch_shift_ratio) ==
    LET r == calculate_pitch_shift_ratio(raw_ratio, previous_pitch_shift_ratio)
        synth == IF r = 0 THEN ZeroBins
                 ELSE apply_spectral_shift(analysis_magnitudes, r, ZeroBins, 0)
    IN  [ratio |-> r, computed |-> r # 0,
         state_ratio |-> previous_pitch_shift_ratio,
         shifted |-> r # 0, synth |-> synth,
         spectrum |-> perform_synthesis(synth, q), kind |-> "synth"]

\* embedded_realtime.rs process_fft_frame: the ratio is smoothed into the
\* state, the magnitudes are copied bin for bin and the frequencies scaled
rt_fft_frame(analysis_magnitudes, raw_ratio, q, state_ratio) ==
    LET r == rt_pitch_shift_ratio(raw_ratio, state_ratio)
    IN  [ratio |-> r, computed |-> TRUE, state_ratio |-> r,
         shifted |-> FALSE, synth |-> analysis_magnitudes,
         spectrum |-> rt_full_spectrum(analysis_magnitudes, q),
         kind |-> "synth"]

Variants == {"core", "generic", "embedded", "realtime"}

\* the frames tried: equal magnitudes, and magnitudes rising with the bin
MagFrames == {[i \in Bins |-> 1], [i \in Bins |-> i + 1]}

\* target / detected in thousandths: nothing detected, two octaves down,
\* on the note, more than two octaves up
RawRatios == {0, 250, 1000, 4400}

Quarters == {0, 1}

NoFrame == [kind |-> "none"]

PipeParked ==
    /\ variant = "core"
    /\ stored_ratio = RatioOne
    /\ prior_ratio = 0
    /\ pcall = NoFrame
    /\ nframes = 0

\* every variant starts with a previous ratio of 1.0 (state.rs line 64,
\* embedded_realtime.rs line 60, daisy_seed_autotune.rs line 70)
PipeInit ==
    /\ variant \in Variants
    /\ stored_ratio = RatioOne
    /\ prior_ratio = 0
    /\ pcall = NoFrame
    /\ nframes = 0

\* the bookkeeping common to the four frame actions
Framed(r, analysis_magnitudes, raw_ratio, q) ==
    /\ pcall' = [kind |-> r.kind, below |-> raw_ratio = 0,
                 mags |-> analysis_magnitudes,
                 prev_in |-> stored_ratio, prior |-> prior_ratio,
                 ratio |-> r.ratio, computed |-> r.computed,
                 shifted |-> r.shifted, synth |-> r.synth,
                 spectrum |-> r.spectrum]
    /\ stored_ratio' = r.state_ratio
    /\ prior_ratio' = IF r.computed THEN r.ratio ELSE prior_ratio
    /\ nframes' = nframes + 1
    /\ UNCHANGED variant
    /\ UNCHANGED <<rbVars, spscVars, appVars, rtVars, frameVars, cfgVars>>

CoreFrame(analysis_magnitudes, raw_ratio, q) ==
    /\ variant = "core" /\ nframes < MaxFrames
    /\ Framed(core_frame(analysis_magnitudes, raw_ratio, q, stored_ratio),
              analysis_magnitudes, raw_ratio, q)

GenericFrame(analysis_magnitudes, raw_ratio, q) ==
    /\ variant = "generic" /\ nframes < MaxFrames
    /\ Framed(generic_frame(analysis_magnitudes, raw_ratio, q, stored_ratio),
              analysis_magnitudes, raw_ratio, q)

EmbeddedFrame(analysis_magnitudes, raw_ratio, q) ==
    /\ variant = "embedded" /\ nframes < MaxFrames
    /\ Framed(autotune_audio_frame(analysis_magnitudes, raw_ratio, q, stored_ratio),
              analysis_magnitudes, raw_ratio, q)

RealtimeFrame(analysis_magnitudes, raw_ratio, q) ==
    /\ variant = "realtime" /\ nframes < MaxFrames
    /\ Framed(rt_fft_frame(analysis_magnitudes, raw_ratio, q, stored_ratio),
              analysis_magnitudes, raw_ratio, q)

PipeNext ==
    \/ \E m \in MagFrames, raw \in RawRatios, q \in Quarters : CoreFrame(m, raw, q)
    \/ \E m \in MagFrames, raw \in RawRatios, q \in Quarters : GenericFrame(m, raw, q)
    \/ \E m \in MagFrames, raw \in RawRatios, q \in Quarters : EmbeddedFrame(m, raw, q)
    \/ \E m \in MagFrames, raw \in RawRatios, q \in Quarters : RealtimeFrame(m, raw, q)

\* C26 as claimed: in every pipeline variant the smoothed ratio computed
\* while processing frame k is the previous-ratio input to the smoothing of
\* frame k+1.
C26_Original ==
    (pcall.kind # "none" /\ pcall.computed /\ pcall.prior # 0) =>
        pcall.prev_in = pcall.prior

\* C27 as claimed: in every pipeline variant the raw ratio is clamped to
\* [0.5, 2.0] before smoothing, so that after every processed frame the
\* ratio used for bin remapping lies in [0.5, 2.0] whenever the previous
\* ratio did.
C27_Original ==
    (pcall.kind # "none" /\ pcall.computed
        /\ ClampLo <= pcall.prev_in /\ pcall.prev_in <= ClampHi) =>
        (ClampLo <= pcall.ratio /\ pcall.ratio <= ClampHi)

\* the frame's output is all zero although its input was not
Silenced ==
    /\ pcall.kind = "synth"
    /\ pcall.synth = ZeroBins
    /\ pcall.mags # ZeroBins

\* C28 as claimed: when the detected fundamental is below the floor no pitch
\* shift is applied to the frame: every analysed bin is resynthesised at its
\* own bin position and frequency (effective ratio 1.0), and the frame is
\* not dropped or silenced.
C28_Original ==
    (pcall.kind # "none" /\ pcall.below) =>
        /\ ~Silenced
        /\ pcall.kind = "synth" =>
              /\ pcall.synth = pcall.mags
              /\ pcall.ratio = RatioOne

\* the source bins that the remap of the last frame sent to bin b
SourcesOf(b) ==
    {i \in Bins :
        /\ pcall.mags[i] > 0
        /\ IF variant = "core" THEN new_bin(i, pcall.ratio) = b
           ELSE Min(new_bin(i, pcall.ratio), NumBins - 1) = b}

RECURSIVE SumOver(_, _)
SumOver(f, S) ==
    IF S = {} THEN 0
    ELSE LET i == CHOOSE j \in S : TRUE IN f[i] + SumOver(f, S \ {i})

\* C29 as claimed: in Autotune remapping, when several source bins map to
\* the same target bin, the synthesis magnitude of that bin is the sum of
\* all their contributions, not the value of the last one written.
C29_Original ==
    (pcall.kind # "none" /\ pcall.shifted) =>
        \A b \in Bins : pcall.synth[b] = SumOver(pcall.mags, SourcesOf(b))

\* C30 as claimed: in every synthesis path the spectrum handed to the
\* inverse transform is Hermitian-symmetric: bin N-i is the conjugate of bin
\* i for every 1 <= i < N/2, and the DC and Nyquist bins have zero imaginary
\* part.
C30_Original ==
    pcall.kind = "synth" =>
        /\ \A i \in 1..(NumBins - 1) :
              pcall.spectrum[FullBins - i] = conj(pcall.spectrum[i])
        /\ pcall.spectrum[0].im = 0
        /\ pcall.spectrum[NumBins].im = 0

RtParked == rt = rt_new(1) /\ rtOut = 0 /\ rtRan = FALSE /\ rtCalls = 0 /\ rtFrames = 0 /\ rtTotal = 0

Init == RbInit /\ SpscIdle /\ AppInit /\ RtParked /\ FrameParked /\ CfgParked /\ PipeParked

Next == RbNext

vars == <<rbVars, spscVars, appVars, rtVars, frameVars, cfgVars, pipeVars>>

Spec == Init /\ [][Next]_vars

SpecCursor == Init /\ [][CursorNext]_vars

SpecSpsc == Init /\ [][SpscNext]_vars

\* the application starts from one new() in_ring / with_offset out_ring
AppStart == RbInit /\ offset0 = 0 /\ SpscIdle /\ AppInit /\ RtParked /\ FrameParked /\ CfgParked /\ PipeParked

SpecApp == AppStart /\ [][AppNext]_vars

\* the streaming controller alone
RtStart == RbInit /\ offset0 = 0 /\ SpscIdle /\ AppInit /\ RtInit /\ FrameParked /\ CfgParked /\ PipeParked

SpecRt == RtStart /\ [][RtNext]_vars

\* the frame entry points alone
FrameStart == RbInit /\ offset0 = 0 /\ SpscIdle /\ AppInit /\ RtParked /\ FrameInit /\ CfgParked /\ PipeParked

SpecFrame == FrameStart /\ [][FrameNext]_vars

\* configuration handling alone
CfgStart == RbInit /\ offset0 = 0 /\ SpscIdle /\ AppInit /\ RtParked /\ FrameParked /\ CfgParked /\ PipeParked

SpecConfig == CfgStart /\ [][ConfigNext]_vars

\* both processing states, with resets
ResetStart == RbInit /\ offset0 = 0 /\ SpscIdle /\ AppInit /\ RtInit /\ FrameInit /\ CfgParked /\ PipeParked

SpecReset == ResetStart /\ [][ResetNext]_vars

\* one buffer under push, pop and add_at_offset
SpecRbAdd == Init /\ [][RbAddNext]_vars

\* one stream through one pipeline variant
PipeStart == RbInit /\ offset0 = 0 /\ SpscIdle /\ AppInit /\ RtParked /\ FrameParked /\ CfgParked /\ PipeInit

SpecPipeline == PipeStart /\ [][PipeNext]_vars

====
